---- MODULE Spec2Model ----
(***************************************************************************)
(* pescea: the Escea fireplace controller (pescea/controller.py) driven by *)
(* its poll loop and by one caller task, on top of the UDP transport       *)
(* (pescea/datagram.py) and the notification hooks of DiscoveryService     *)
(* (pescea/discovery.py).                                                  *)
(*                                                                         *)
(* The two asyncio tasks interleave at the await points of the code only:  *)
(* waiting for the sending lock and waiting for send_command().  All the   *)
(* code between two awaits is one step of the model.                       *)
(***************************************************************************)
EXTENDS Integers, Sequences, FiniteSets, TLC

VARIABLES
    state,           \* Controller._state
    settings,        \* Controller._system_settings (a dict: keys appear as they are set)
    last_response,   \* Controller._last_response, in seconds from now
    busy_end_time,   \* Controller._busy_end_time, in seconds from now
    closed,          \* Controller._closed
    initialised,     \* Controller._initialised
    lock,            \* Controller._sending_lock: holder and FIFO of waiting tasks
    fire,            \* the fireplace itself: what a STATUS reply reports
    responsive,      \* whether the fireplace currently answers requests
    disconnected_uids, \* DiscoveryService._disconnected_uids
    outage,          \* 'disconnected' notifications since the last valid reply
    tasks,           \* per task: position in the code and the locals it holds there
    ev,              \* what the last step did (task, operation, frame sent, refresh that ended)
    dg,              \* one FireplaceDatagram.send_command call: its locals and its endpoint
    msg,             \* one FireplaceMessage: the arguments of its constructor and what it built
    disc             \* the DiscoveryService: its controllers and the tasks initialising them

vars == <<state, settings, last_response, busy_end_time, closed, initialised,
          lock, fire, responsive, disconnected_uids, outage, tasks, ev, dg, msg, disc>>

-----------------------------------------------------------------------------
(* Program constants (seconds, degrees).                                   *)

REFRESH_INTERVAL == 30
RETRY_INTERVAL == 10
RETRY_TIMEOUT == 60
DISCONNECTED_INTERVAL == 300
ON_OFF_BUSY_WAIT_TIME == 120
MIN_SET_TEMP == 4
MAX_SET_TEMP == 30

(* Bounds of the model.                                                    *)

\* the clock advances in steps of SecondsPerTick
SecondsPerTick == 30
\* the count of 'disconnected' notifications of one outage saturates here
MaxOutage == 2

\* time().  The code only ever subtracts two times or compares them, so time is
\* measured from the present: now is 0 at every moment and the passing of time
\* (Tick) moves every stored time stamp into the past.
now == 0

\* time() is seconds since 1970, so the 0.0 that initialize() stores in
\* _last_response and _busy_end_time is long ago.  A _last_response that is
\* RETRY_TIMEOUT old or older takes the same branch of line 317 whatever its
\* age, and is kept as LongAgo; a _busy_end_time or a wake-up time that has
\* passed is kept as now.
LongAgo == now - RETRY_TIMEOUT

Max(a, b) == IF a > b THEN a ELSE b

None == "None"

ControllerState == {"BUSY", "READY", "NON_RESPONSIVE", "DISCONNECTED"}
Fan == {"FLAME_EFFECT", "AUTO", "FAN_BOOST"}

DEVICE_UID == 1111
DEVICE_IP == "8.8.8.8"

\* values the model draws temperatures from
SetTemps == {MIN_SET_TEMP, MAX_SET_TEMP}
RoomTemps == {16}
TempInputs == {MIN_SET_TEMP - 1, MIN_SET_TEMP, MAX_SET_TEMP, MAX_SET_TEMP + 1}

Tasks == {"poll", "caller"}

-----------------------------------------------------------------------------
(* The cache is a Python dict: a key is present once it has been assigned. *)

HasKey(s, k) == k \in DOMAIN s

SetKey(s, k, v) == [x \in DOMAIN s \cup {k} |-> IF x = k THEN v ELSE s[x]]

\* property getters: `self._get_system_state(KEY) or None`
is_on == IF settings["FIRE_IS_ON"] = TRUE THEN "True" ELSE None
fan == settings["FAN_MODE"]
desired_temp == IF settings["DESIRED_TEMP"] = 0 THEN None ELSE settings["DESIRED_TEMP"]

\* fan mode reported by a STATUS reply, as _refresh_system derives it
FanOfStatus(r) ==
    IF r.fan_boost_is_on THEN "FAN_BOOST"
    ELSE IF r.flame_effect THEN "FLAME_EFFECT"
    ELSE "AUTO"

\* what the fireplace does with a frame it receives
FireApply(f, command, value) ==
    CASE command = "POWER_ON" -> [f EXCEPT !.fire_is_on = TRUE]
      [] command = "POWER_OFF" -> [f EXCEPT !.fire_is_on = FALSE]
      [] command = "FAN_BOOST_ON" -> [f EXCEPT !.fan_boost_is_on = TRUE]
      [] command = "FAN_BOOST_OFF" -> [f EXCEPT !.fan_boost_is_on = FALSE]
      [] command = "FLAME_EFFECT_ON" -> [f EXCEPT !.flame_effect = TRUE]
      [] command = "FLAME_EFFECT_OFF" -> [f EXCEPT !.flame_effect = FALSE]
      [] command = "NEW_SET_TEMP" -> [f EXCEPT !.desired_temp = value]
      [] OTHER -> f

\* how send_command() can end for the caller: a map whose first entry has the
\* expected response id, a map whose first entry has another id, an empty map
\* (endpoint lost before any datagram), or ConnectionError (timeout, OSError)
Replies == {"ok", "wrong", "empty", "error"}
Outcomes == IF responsive THEN {"ok"} ELSE Replies \ {"ok"}

-----------------------------------------------------------------------------
(* Locals of a task.  A task runs one top-level operation at a time: the   *)
(* poll task runs initialize() and then the iterations of _poll_loop, the  *)
(* caller task runs set_on / set_fan / set_desired_temp.                   *)

NoStatus == [has_new_timers |-> FALSE, fire_is_on |-> FALSE, fan_boost_is_on |-> FALSE,
             flame_effect |-> FALSE, desired_temp |-> 0, current_temp |-> 0]

NoFrame == [field |-> None, value |-> None, sync |-> FALSE]

BlankTask(pc) ==
    [pc |-> pc,
     wake |-> now,             \* _poll_loop: when asyncio.sleep() ends
     call |-> NoFrame,         \* _set_system_state frame of the caller's own call
     frame |-> NoFrame,        \* _set_system_state frame now running (state, value, sync)
     command |-> None,         \* frame handed to send_command, and its data
     arg |-> None,
     response |-> NoStatus,    \* _refresh_system: response
     prior_state |-> None,     \* _refresh_system: prior_state
     notify |-> TRUE,          \* _refresh_system: notify
     ret |-> None,             \* who called _refresh_system: init, loop or set
     rstep |-> 0,              \* which field of lines 298-308 is being synchronised
     mism |-> {},              \* fields lines 298-306 found to differ
     sent |-> {},              \* frames sent since _refresh_system got its reply
     notes |-> {}]             \* notifications given to Discovery by this refresh

NoExit == [ret |-> None, prior_state |-> None, mism |-> {}, sent |-> {}, notes |-> {},
           state |-> None]

\* ev: the step just taken.  call: the setting and value of the set_on / set_fan /
\* set_desired_temp call it started; rx, reply: the frame whose send_command
\* ended in it, and how; tx: the frame it put on the wire; rf: how a
\* _refresh_system call ended in it (skip, ready, resync, failed, raised) with
\* the locals of that call in x; done: how the top-level operation ended.
NoEvent(t, op) == [task |-> t, op |-> op, call |-> NoFrame, rx |-> None, reply |-> None,
                   tx |-> None, rf |-> None, x |-> NoExit, done |-> None]

Machine(t, op) ==
    [state |-> state, settings |-> settings, last_response |-> last_response,
     busy_end_time |-> busy_end_time, initialised |-> initialised, lock |-> lock,
     fire |-> fire, disconnected_uids |-> disconnected_uids, outage |-> outage,
     tasks |-> tasks, ev |-> NoEvent(t, op)]

Commit(m) ==
    /\ state' = m.state
    /\ settings' = m.settings
    /\ last_response' = m.last_response
    /\ busy_end_time' = m.busy_end_time
    /\ initialised' = m.initialised
    /\ lock' = m.lock
    /\ fire' = m.fire
    /\ disconnected_uids' = m.disconnected_uids
    /\ outage' = m.outage
    /\ tasks' = m.tasks
    /\ ev' = m.ev

-----------------------------------------------------------------------------
(* asyncio.Lock and FireplaceDatagram.send_command                         *)

\* send_command up to its await: connection_made puts the frame on the wire and
\* the task waits for on_complete
Transmit(m, t, waitpc) ==
    [m EXCEPT !.tasks[t].pc = waitpc,
              !.tasks[t].sent = @ \cup {m.tasks[t].command},
              !.ev.tx = m.tasks[t].command]

\* Acquire without the `async with self._sending_lock:` around send_command
Acquire_NoLock(m, t, cmd, arg, lockpc, waitpc) ==
    Transmit([m EXCEPT !.tasks[t].command = cmd, !.tasks[t].arg = arg], t, waitpc)

\* `async with self._sending_lock:` then send_command(cmd, arg).  A free lock is
\* taken without yielding; a held one queues the task (FIFO).
Acquire(m, t, cmd, arg, lockpc, waitpc) ==
    LET m1 == [m EXCEPT !.tasks[t].command = cmd, !.tasks[t].arg = arg]
    IN IF m1.lock.holder = None /\ m1.lock.waiters = <<>>
       THEN Transmit([m1 EXCEPT !.lock.holder = t], t, waitpc)
       ELSE [m1 EXCEPT !.lock.waiters = Append(@, t), !.tasks[t].pc = lockpc]

\* leaving the `async with`: the first waiter, if any, is woken and owns the lock
Release(m) ==
    IF m.lock.waiters = <<>>
    THEN [m EXCEPT !.lock.holder = None]
    ELSE [m EXCEPT !.lock.holder = Head(m.lock.waiters), !.lock.waiters = Tail(@)]

-----------------------------------------------------------------------------
(* Controller                                                              *)

\* _poll_loop, lines 150-157: how long the loop sleeps after a refresh
SleepTime(m) ==
    CASE m.state = "READY" -> REFRESH_INTERVAL
      [] m.state = "NON_RESPONSIVE" -> RETRY_INTERVAL
      [] m.state = "DISCONNECTED" -> DISCONNECTED_INTERVAL
      [] OTHER -> IF m.busy_end_time - now > 0 THEN m.busy_end_time - now ELSE 0

\* the locals of the _refresh_system call that ends in this step
ExitInfo(m, t, how) ==
    LET tk == m.tasks[t]
    IN [m EXCEPT !.ev.rf = how,
                 !.ev.x = [ret |-> tk.ret,
                           prior_state |-> tk.prior_state,
                           mism |-> tk.mism,
                           sent |-> tk.sent,
                           notes |-> tk.notes,
                           state |-> m.state]]

\* an exception leaves every frame of the task: _set_system_state and
\* _refresh_system catch nothing but TimeoutError, _poll_loop and initialize
\* catch nothing.  The poll task ends; the caller gets the exception.
Raise(m, t, exc) ==
    LET tk == m.tasks[t]
        m1 == IF tk.ret # None THEN ExitInfo(m, t, "raised") ELSE m
    IN [m1 EXCEPT !.ev.done = exc,
                  !.tasks[t] = IF t = "caller" THEN BlankTask("idle")
                               ELSE IF tk.ret = "init" THEN BlankTask("failed")
                               ELSE BlankTask("dead")]

\* _set_system_state lines 370-406: the first frame of a change, if any.  s is
\* the cache after line 362 has stored the new value in it.
FirstCommand(field, value, s) ==
    CASE field = "FIRE_IS_ON" -> IF value THEN "POWER_ON" ELSE "POWER_OFF"
      [] field = "DESIRED_TEMP" -> "NEW_SET_TEMP"
      [] field = "FAN_MODE" ->
            CASE value = "AUTO" ->
                    IF s[field] = "FAN_BOOST" THEN "FAN_BOOST_OFF" ELSE "FLAME_EFFECT_OFF"
              [] value = "FAN_BOOST" ->
                    IF s[field] = "FLAME_EFFECT" THEN "FLAME_EFFECT_OFF" ELSE None
              [] value = "FLAME_EFFECT" ->
                    IF s[field] = "FAN_BOOST" THEN "FAN_BOOST_OFF" ELSE None

\* lines 431-438: the frame that turns the requested toggle on
SecondCommand(value) ==
    IF value = "FAN_BOOST" THEN "FAN_BOOST_ON" ELSE "FLAME_EFFECT_ON"

RECURSIVE ResyncFrom(_, _, _)

\* return from _set_system_state: to lines 298-313 of _refresh_system when it was
\* called from there (sync), else to the caller of set_on / set_fan / set_desired_temp
SetReturn(m, t) ==
    IF m.tasks[t].frame.sync
    THEN ResyncFrom(m, t, m.tasks[t].rstep + 1)
    ELSE [m EXCEPT !.tasks[t] = BlankTask("idle"), !.ev.done = "returned"]

\* lines 455-458
SetFinish(m, t) ==
    IF m.tasks[t].frame.field = "FIRE_IS_ON"
    THEN SetReturn([m EXCEPT !.state = "BUSY",
                             !.busy_end_time = now + ON_OFF_BUSY_WAIT_TIME], t)
    ELSE SetReturn(m, t)

\* return from _refresh_system to initialize (lines 127-130), to _poll_loop
\* (lines 145-159) or to _set_system_state (line 455)
RefreshReturn(m, t, how) ==
    LET m1 == ExitInfo(m, t, how)
        ret == m.tasks[t].ret
    IN CASE ret = "set" ->
              SetFinish([m1 EXCEPT !.tasks[t].frame = m.tasks[t].call,
                                   !.tasks[t].ret = None], t)
         [] ret = "loop" ->
              [m1 EXCEPT !.tasks[t] = [BlankTask("sleep") EXCEPT !.wake = now + SleepTime(m1)],
                         !.ev.done = "returned"]
         [] ret = "init" ->
              [m1 EXCEPT !.initialised = TRUE,
                         !.tasks[t] = [BlankTask("sleep") EXCEPT !.wake = now],
                         !.ev.done = "returned"]

\* _refresh_system lines 266-270 and _request_status lines 324-326
RefreshEnter(m, t, notify, ret) ==
    LET m1 == [m EXCEPT !.tasks[t].ret = ret,
                        !.tasks[t].notify = notify,
                        !.tasks[t].prior_state = m.state,
                        !.tasks[t].response = NoStatus,
                        !.tasks[t].mism = {},
                        !.tasks[t].sent = {},
                        !.tasks[t].notes = {}]
    IN IF m.state = "BUSY" /\ now < m.busy_end_time
       THEN RefreshReturn(m1, t, "skip")
       ELSE Acquire(m1, t, "STATUS_PLEASE", None, "rf_lock", "rf_wait")

\* SetTail without lines 452-453: no refresh after the acknowledgement
SetTail_NoRefresh(m, t) ==
    SetFinish(m, t)

\* lines 451-453
SetTail(m, t) ==
    IF ~m.tasks[t].frame.sync
    THEN RefreshEnter(m, t, TRUE, "set")
    ELSE SetFinish(m, t)

\* lines 423-441
SetPart2(m, t) ==
    LET fr == m.tasks[t].frame
    IN IF fr.field = "FAN_MODE" /\ fr.value # "AUTO"
       THEN Acquire(m, t, SecondCommand(fr.value), fr.value, "set_lock2", "set_wait2")
       ELSE SetTail(m, t)

\* SetEnter without the test of line 364: the frame goes out in any state
SetEnter_NoStateTest(m, t, field, value, sync) ==
    LET m0 == [m EXCEPT !.tasks[t].frame = [field |-> field, value |-> value, sync |-> sync]]
    IN IF ~sync /\ ~HasKey(m.settings, field) THEN Raise(m0, t, "KeyError")
       ELSE IF ~sync /\ m.settings[field] = value THEN SetReturn(m0, t)
       ELSE LET m1 == [m0 EXCEPT !.settings = SetKey(@, field, value)]
                command == FirstCommand(field, value, m1.settings)
            IN IF command # None
               THEN Acquire(m1, t, command, value, "set_lock1", "set_wait1")
               ELSE SetPart2(m1, t)

\* SetEnter without the test of line 358: an equal value is dispatched again
SetEnter_NoEqualTest(m, t, field, value, sync) ==
    LET m0 == [m EXCEPT !.tasks[t].frame = [field |-> field, value |-> value, sync |-> sync]]
    IN IF ~sync /\ ~HasKey(m.settings, field) THEN Raise(m0, t, "KeyError")
       ELSE LET m1 == [m0 EXCEPT !.settings = SetKey(@, field, value)]
                command == FirstCommand(field, value, m1.settings)
            IN IF m1.state # "READY" THEN SetReturn(m1, t)
               ELSE IF command # None
                    THEN Acquire(m1, t, command, value, "set_lock1", "set_wait1")
                    ELSE SetPart2(m1, t)

\* _set_system_state lines 355-413, up to its first await or return
SetEnter(m, t, field, value, sync) ==
    LET m0 == [m EXCEPT !.tasks[t].frame = [field |-> field, value |-> value, sync |-> sync]]
    IN IF ~sync /\ ~HasKey(m.settings, field) THEN Raise(m0, t, "KeyError")
       ELSE IF ~sync /\ m.settings[field] = value THEN SetReturn(m0, t)
       ELSE LET m1 == [m0 EXCEPT !.settings = SetKey(@, field, value)]
                command == FirstCommand(field, value, m1.settings)
            IN IF m1.state # "READY" THEN SetReturn(m1, t)
               ELSE IF command # None
                    THEN Acquire(m1, t, command, value, "set_lock1", "set_wait1")
                    ELSE SetPart2(m1, t)

\* DiscoveryService.controller_reconnected: set.remove raises KeyError on a
\* uid that is not in the set
ControllerReconnected(m, t) ==
    IF DEVICE_UID \notin m.disconnected_uids
    THEN Raise(m, t, "KeyError")
    ELSE RefreshReturn([m EXCEPT !.disconnected_uids = @ \ {DEVICE_UID},
                                 !.tasks[t].notes = @ \cup {"reconnected"}],
                       t, "resync")

\* _refresh_system lines 298-313, from the k-th comparison on
ResyncFrom(m, t, k) ==
    LET r == m.tasks[t].response
        s == m.settings
        Sync(field) ==
            SetEnter([m EXCEPT !.tasks[t].rstep = k, !.tasks[t].mism = @ \cup {field}],
                     t, field, s[field], TRUE)
    IN CASE k = 1 ->
              IF ~HasKey(s, "DESIRED_TEMP") THEN Raise(m, t, "KeyError")
              ELSE IF r.desired_temp # s["DESIRED_TEMP"] THEN Sync("DESIRED_TEMP")
              ELSE ResyncFrom(m, t, 2)
         [] k = 2 ->
              IF ~HasKey(s, "FAN_MODE") THEN Raise(m, t, "KeyError")
              ELSE IF \/ r.fan_boost_is_on # (s["FAN_MODE"] = "FAN_BOOST")
                      \/ r.flame_effect # (s["FAN_MODE"] = "FLAME_EFFECT")
                   THEN Sync("FAN_MODE")
              ELSE ResyncFrom(m, t, 3)
         [] k = 3 ->
              IF ~HasKey(s, "FIRE_IS_ON") THEN Raise(m, t, "KeyError")
              ELSE IF r.fire_is_on # s["FIRE_IS_ON"] THEN Sync("FIRE_IS_ON")
              ELSE ResyncFrom([m EXCEPT !.state = "READY"], t, 4)
         [] OTHER ->
              IF m.tasks[t].prior_state = "DISCONNECTED"
              THEN ControllerReconnected(m, t)
              ELSE RefreshReturn(m, t, "resync")

\* DiscoveryService.controller_disconnected
ControllerDisconnected(m, t) ==
    [m EXCEPT !.disconnected_uids = @ \cup {DEVICE_UID},
              !.outage = IF @ < MaxOutage THEN @ + 1 ELSE @,
              !.tasks[t].notes = @ \cup {"disconnected"}]

\* RefreshReady without the test of line 290: controller_update on every call
RefreshReady_AlwaysNotify(m, t) ==
    LET r == m.tasks[t].response
        s1 == SetKey(m.settings, "DESIRED_TEMP", r.desired_temp)
        s2 == SetKey(s1, "FAN_MODE", FanOfStatus(r))
        s3 == SetKey(s2, "FIRE_IS_ON", r.fire_is_on)
        m1 == [m EXCEPT !.settings = s3]
    IN RefreshReturn([m1 EXCEPT !.tasks[t].notes = @ \cup {"updated"}], t, "ready")

\* _refresh_system lines 271-291: a STATUS reply, prior state READY
RefreshReady(m, t) ==
    LET r == m.tasks[t].response
        s1 == SetKey(m.settings, "DESIRED_TEMP", r.desired_temp)
        s2 == SetKey(s1, "FAN_MODE", FanOfStatus(r))
        s3 == SetKey(s2, "FIRE_IS_ON", r.fire_is_on)
        m1 == [m EXCEPT !.settings = s3]
    IN IF m.tasks[t].notify
       THEN RefreshReturn([m1 EXCEPT !.tasks[t].notes = @ \cup {"updated"}], t, "ready")
       ELSE RefreshReturn(m1, t, "ready")

\* RefreshFailed without the test of line 317
RefreshFailed_NeverDisconnected(m, t) ==
    RefreshReturn([m EXCEPT !.state = "NON_RESPONSIVE"], t, "failed")

\* _refresh_system lines 315-321: no usable reply
RefreshFailed(m, t) ==
    IF now - m.last_response < RETRY_TIMEOUT
    THEN RefreshReturn([m EXCEPT !.state = "NON_RESPONSIVE"], t, "failed")
    ELSE RefreshReturn(ControllerDisconnected([m EXCEPT !.state = "DISCONNECTED"], t),
                       t, "failed")

\* RefreshReceive that gives way before it has written CURRENT_TEMP
RefreshReceive_LeavesRoomTemp(m, t, reply) ==
    LET m1 == [Release(m) EXCEPT !.tasks[t].sent = {}]
    IN CASE reply = "error" -> Raise(m1, t, "ConnectionError")
         [] reply = "ok" ->
              LET r == m.fire
                  s1 == SetKey(m1.settings, "HAS_NEW_TIMERS", r.has_new_timers)
                  s2 == s1
                  m2 == [m1 EXCEPT !.last_response = now, !.outage = 0, !.settings = s2,
                                   !.tasks[t].response = r]
              IN IF m.tasks[t].prior_state = "READY"
                 THEN RefreshReady(m2, t)
                 ELSE ResyncFrom(m2, t, 1)
         [] OTHER -> RefreshFailed([m1 EXCEPT !.state = "NON_RESPONSIVE"], t)

\* _request_status lines 326-338 and _refresh_system lines 271-321, from the
\* moment send_command(STATUS_PLEASE) ends with reply
RefreshReceive(m, t, reply) ==
    LET m1 == [Release(m) EXCEPT !.tasks[t].sent = {}]
    IN CASE reply = "error" -> Raise(m1, t, "ConnectionError")
         [] reply = "ok" ->
              LET r == m.fire
                  s1 == SetKey(m1.settings, "HAS_NEW_TIMERS", r.has_new_timers)
                  s2 == SetKey(s1, "CURRENT_TEMP", r.current_temp)
                  m2 == [m1 EXCEPT !.last_response = now, !.outage = 0, !.settings = s2,
                                   !.tasks[t].response = r]
              IN IF m.tasks[t].prior_state = "READY"
                 THEN RefreshReady(m2, t)
                 ELSE ResyncFrom(m2, t, 1)
         [] OTHER -> RefreshFailed([m1 EXCEPT !.state = "NON_RESPONSIVE"], t)

\* SetReceive with lines 417 and 445 moved out of the test of the reply: any
\* reply map counts as a response
SetReceive_StampAnyReply(m, t, part, reply) ==
    LET m1 == [Release(m) EXCEPT !.last_response = now]
    IN CASE reply = "error" -> Raise(Release(m), t, "ConnectionError")
         [] reply = "ok" ->
              LET m2 == [m1 EXCEPT !.outage = 0]
              IN IF part = 1 THEN SetPart2(m2, t) ELSE SetTail(m2, t)
         [] OTHER -> SetReturn([m1 EXCEPT !.state = "NON_RESPONSIVE"], t)

\* _set_system_state lines 413-421 (part 1) and 441-449 (part 2), from the moment
\* send_command ends with reply
SetReceive(m, t, part, reply) ==
    LET m1 == Release(m)
    IN CASE reply = "error" -> Raise(m1, t, "ConnectionError")
         [] reply = "ok" ->
              LET m2 == [m1 EXCEPT !.last_response = now, !.outage = 0]
              IN IF part = 1 THEN SetPart2(m2, t) ELSE SetTail(m2, t)
         [] OTHER -> SetReturn([m1 EXCEPT !.state = "NON_RESPONSIVE"], t)

\* send_command from datagram_received / connection_lost / the timeout on: a
\* fireplace that answers has acted on the frame
Delivered(m, t, reply) ==
    IF reply = "ok"
    THEN [m EXCEPT !.fire = FireApply(@, m.tasks[t].command, m.tasks[t].arg)]
    ELSE m

-----------------------------------------------------------------------------
(* FireplaceDatagram.send_command (datagram.py) and FireplaceMessage       *)
(* (message.py), each followed on its own.                                 *)

CommandID == {"STATUS_PLEASE", "POWER_ON", "POWER_OFF", "SEARCH_FOR_FIRES", "FAN_BOOST_ON",
              "FAN_BOOST_OFF", "FLAME_EFFECT_ON", "FLAME_EFFECT_OFF", "NEW_SET_TEMP"}

ResponseID == {"STATUS", "POWER_ON_ACK", "POWER_OFF_ACK", "FAN_BOOST_ON_ACK",
               "FAN_BOOST_OFF_ACK", "FLAME_EFFECT_ON_ACK", "FLAME_EFFECT_OFF_ACK",
               "NEW_SET_TEMP_ACK", "I_AM_A_FIRE"}

\* FireplaceMessage.expected_response
\* expected_response with POWER_OFF answered like POWER_ON
expected_response_SharedAck(command) ==
    CASE command = "STATUS_PLEASE" -> "STATUS"
      [] command = "POWER_ON" -> "POWER_ON_ACK"
      [] command = "POWER_OFF" -> "POWER_ON_ACK"
      [] command = "SEARCH_FOR_FIRES" -> "I_AM_A_FIRE"
      [] command = "FAN_BOOST_ON" -> "FAN_BOOST_ON_ACK"
      [] command = "FAN_BOOST_OFF" -> "FAN_BOOST_OFF_ACK"
      [] command = "FLAME_EFFECT_ON" -> "FLAME_EFFECT_ON_ACK"
      [] command = "FLAME_EFFECT_OFF" -> "FLAME_EFFECT_OFF_ACK"
      [] command = "NEW_SET_TEMP" -> "NEW_SET_TEMP_ACK"

expected_response(command) ==
    CASE command = "STATUS_PLEASE" -> "STATUS"
      [] command = "POWER_ON" -> "POWER_ON_ACK"
      [] command = "POWER_OFF" -> "POWER_OFF_ACK"
      [] command = "SEARCH_FOR_FIRES" -> "I_AM_A_FIRE"
      [] command = "FAN_BOOST_ON" -> "FAN_BOOST_ON_ACK"
      [] command = "FAN_BOOST_OFF" -> "FAN_BOOST_OFF_ACK"
      [] command = "FLAME_EFFECT_ON" -> "FLAME_EFFECT_ON_ACK"
      [] command = "FLAME_EFFECT_OFF" -> "FLAME_EFFECT_OFF_ACK"
      [] command = "NEW_SET_TEMP" -> "NEW_SET_TEMP_ACK"

\* the fireplaces on the network: source address and serial number
Addrs == {"192.168.0.111", "192.168.0.222"}
SerialOf(addr) == IF addr = "192.168.0.111" THEN 1111 ELSE 2222

\* the frame a fireplace at addr sends with response id id, as decoded by
\* datagram_received (only I_AM_A_FIRE carries a serial number)
Response(addr, id) ==
    [addr |-> addr, id |-> id, serial |-> IF id = "I_AM_A_FIRE" THEN SerialOf(addr) ELSE 0]

\* responses[addr] = response on a dict kept as the list of its items in
\* insertion order: a key that is there keeps its place
DictPut(d, addr, r) ==
    IF \E i \in 1..Len(d) : d[i].addr = addr
    THEN [i \in 1..Len(d) |-> IF d[i].addr = addr THEN r ELSE d[i]]
    ELSE Append(d, r)

\* the interpreters python_requires admits.  asyncio.TimeoutError, which the
\* timeout() context manager raises, is the builtin TimeoutError (an OSError)
\* from 3.11 on and a class of its own before.
Builds == {"3.8", "3.11"}

\* how send_command is called: the broadcast search of DiscoveryService and
\* the unicast commands of Controller
SendInputs ==
    {<<"SEARCH_FOR_FIRES", TRUE>>} \cup
    {<<c, FALSE>> : c \in {"STATUS_PLEASE", "POWER_ON", "NEW_SET_TEMP"}}

\* no send_command call is under way.  pc: where the call is (connecting:
\* awaiting create_datagram_endpoint, waiting: awaiting on_complete); open:
\* the endpoint exists and receives; closing: transport.close() was called and
\* connection_lost is due; expired: the timeout ended the call; result: what
\* the call gave its caller; last: the callback or step that ran last.
NoDatagram ==
    [pc |-> "idle", command |-> None, broadcast |-> FALSE, responses |-> <<>>,
     open |-> FALSE, closing |-> FALSE, expired |-> FALSE, result |-> None, last |-> None,
     ip |-> DEVICE_IP]

\* DiscoveryService.__init__: no controller registered, and no Controller object
\* made yet
NoDiscovery == [controllers |-> {}, made |-> <<>>]

\* no FireplaceMessage is being built
NoMessage == [op |-> "none"]

-----------------------------------------------------------------------------
(* The system: Controller.__init__, then the steps of the tasks, the clock  *)
(* and the fireplace.                                                      *)

\* what a fireplace can report: the toggles of a fireplace that is switched on
\* by hand are never both on; the new-timers flag and the room temperature are
\* the ones of the test fireplace
FireStates ==
    {f \in [has_new_timers : {FALSE}, fire_is_on : BOOLEAN, fan_boost_is_on : BOOLEAN,
            flame_effect : BOOLEAN, desired_temp : SetTemps, current_temp : RoomTemps] :
        ~(f.fan_boost_is_on /\ f.flame_effect)}

Init ==
    /\ state = None
    /\ settings = [IP_ADDRESS |-> DEVICE_IP, DEVICE_UID |-> DEVICE_UID]
    /\ last_response = LongAgo
    /\ busy_end_time = now
    /\ closed = FALSE
    /\ initialised = FALSE
    /\ lock = [holder |-> None, waiters |-> <<>>]
    /\ fire \in FireStates
    /\ responsive \in BOOLEAN
    /\ disconnected_uids = {}
    /\ outage = 0
    /\ tasks = [t \in Tasks |-> IF t = "poll" THEN BlankTask("uninit") ELSE BlankTask("idle")]
    /\ ev = NoEvent(None, "Init")
    /\ dg = NoDatagram
    /\ msg = NoMessage
    /\ disc = NoDiscovery

\* Controller.initialize
Initialize ==
    /\ tasks["poll"].pc = "uninit"
    /\ Commit(RefreshEnter([Machine("poll", "Initialize") EXCEPT
                                !.state = "READY",
                                !.last_response = LongAgo,
                                !.busy_end_time = now],
                           "poll", FALSE, "init"))
    /\ UNCHANGED <<closed, responsive, dg, msg, disc>>

\* PollWake without the test of _closed at line 141
PollWake_NoClosedTest ==
    /\ tasks["poll"].pc = "sleep"
    /\ now >= tasks["poll"].wake
    /\ Commit(RefreshEnter(Machine("poll", "PollWake"), "poll", TRUE, "loop"))
    /\ UNCHANGED <<closed, responsive, dg, msg, disc>>

\* Controller._poll_loop: asyncio.sleep() is over, the loop tests _closed and
\* refreshes
PollWake ==
    /\ tasks["poll"].pc = "sleep"
    /\ now >= tasks["poll"].wake
    /\ IF closed
       THEN Commit([Machine("poll", "PollWake") EXCEPT
                        !.tasks["poll"] = BlankTask("done"), !.ev.done = "returned"])
       ELSE Commit(RefreshEnter(Machine("poll", "PollWake"), "poll", TRUE, "loop"))
    /\ UNCHANGED <<closed, responsive, dg, msg, disc>>

\* a call of _set_system_state(field, value) by the caller task
Call(op, field, value) ==
    LET frame == [field |-> field, value |-> value, sync |-> FALSE]
    IN Commit(SetEnter([Machine("caller", op) EXCEPT !.tasks["caller"].call = frame,
                                                     !.ev.call = frame],
                       "caller", field, value, FALSE))

\* Controller.set_on
SetOn(value) ==
    /\ initialised
    /\ tasks["caller"].pc = "idle"
    /\ Call("SetOn", "FIRE_IS_ON", value)
    /\ UNCHANGED <<closed, responsive, dg, msg, disc>>

\* Controller.set_fan
SetFan(value) ==
    /\ initialised
    /\ tasks["caller"].pc = "idle"
    /\ Call("SetFan", "FAN_MODE", value)
    /\ UNCHANGED <<closed, responsive, dg, msg, disc>>

\* Controller.set_desired_temp (round() of a whole number is that number)
SetDesiredTemp(value) ==
    /\ initialised
    /\ tasks["caller"].pc = "idle"
    /\ IF value < MIN_SET_TEMP \/ value > MAX_SET_TEMP
       THEN Commit([Machine("caller", "SetDesiredTemp") EXCEPT !.ev.done = "returned"])
       ELSE Call("SetDesiredTemp", "DESIRED_TEMP", value)
    /\ UNCHANGED <<closed, responsive, dg, msg, disc>>

\* a task woken with the sending lock enters send_command
LockGranted(t) ==
    /\ tasks[t].pc \in {"rf_lock", "set_lock1", "set_lock2"}
    /\ lock.holder = t
    /\ Commit(Transmit(Machine(t, "LockGranted"), t,
                       CASE tasks[t].pc = "rf_lock" -> "rf_wait"
                         [] tasks[t].pc = "set_lock1" -> "set_wait1"
                         [] tasks[t].pc = "set_lock2" -> "set_wait2"))
    /\ UNCHANGED <<closed, responsive, dg, msg, disc>>

\* send_command ends and the task runs on to its next await
Receive(t) ==
    /\ tasks[t].pc \in {"rf_wait", "set_wait1", "set_wait2"}
    /\ \E o \in Outcomes :
         LET m == Delivered([Machine(t, "Receive") EXCEPT !.ev.rx = tasks[t].command,
                                                          !.ev.reply = o], t, o)
         IN Commit(CASE tasks[t].pc = "rf_wait" -> RefreshReceive(m, t, o)
                     [] tasks[t].pc = "set_wait1" -> SetReceive(m, t, 1, o)
                     [] tasks[t].pc = "set_wait2" -> SetReceive(m, t, 2, o))
    /\ UNCHANGED <<closed, responsive, dg, msg, disc>>

\* Controller.close.  Spec follows a controller that is not closed; close() is
\* a step of the specifications about shutting down.
Close ==
    /\ initialised
    /\ ~closed
    /\ closed' = TRUE
    /\ ev' = NoEvent(None, "Close")
    /\ UNCHANGED <<dg, msg, disc>>
    /\ UNCHANGED <<state, settings, last_response, busy_end_time, initialised, lock,
                   fire, responsive, disconnected_uids, outage, tasks>>

\* Time passes: every stored time stamp is SecondsPerTick further in the past.
\* A request ends within REQUEST_TIMEOUT and the event loop runs a task as soon
\* as it can run, both well within one tick: the clock ticks when no request is
\* in flight and no task is ready to run.
Tick ==
    /\ \A t \in Tasks : tasks[t].pc \in {"uninit", "failed", "dead", "done", "sleep", "idle"}
    /\ tasks["poll"].pc = "sleep" => tasks["poll"].wake > now
    /\ last_response' = Max(last_response - SecondsPerTick, LongAgo)
    /\ busy_end_time' = Max(busy_end_time - SecondsPerTick, now)
    /\ tasks' = [t \in Tasks |-> [tasks[t] EXCEPT !.wake = Max(@ - SecondsPerTick, now)]]
    /\ ev' = NoEvent(None, "env")
    /\ UNCHANGED <<dg, msg, disc>>
    /\ UNCHANGED <<state, settings, closed, initialised, lock, fire, responsive,
                   disconnected_uids, outage>>

\* the fireplace stops or starts answering
LinkChange ==
    /\ responsive' = ~responsive
    /\ ev' = NoEvent(None, "env")
    /\ UNCHANGED <<dg, msg, disc>>
    /\ UNCHANGED <<state, settings, last_response, busy_end_time, closed, initialised,
                   lock, fire, disconnected_uids, outage, tasks>>

\* the fireplace is operated by hand: power or desired temperature
FireChange ==
    /\ \E f \in FireStates :
         /\ f.has_new_timers = fire.has_new_timers
         /\ f.current_temp = fire.current_temp
         /\ f.fan_boost_is_on = fire.fan_boost_is_on
         /\ f.flame_effect = fire.flame_effect
         /\ Cardinality({k \in {"fire_is_on", "desired_temp"} :
                             f[k] # fire[k]}) = 1
         /\ fire' = f
    /\ ev' = NoEvent(None, "env")
    /\ UNCHANGED <<dg, msg, disc>>
    /\ UNCHANGED <<state, settings, last_response, busy_end_time, closed, initialised,
                   lock, responsive, disconnected_uids, outage, tasks>>

Next ==
    \/ Initialize
    \/ PollWake
    \/ \E v \in BOOLEAN : SetOn(v)
    \/ \E v \in Fan : SetFan(v)
    \/ \E v \in TempInputs : SetDesiredTemp(v)
    \/ \E t \in Tasks : LockGranted(t)
    \/ \E t \in Tasks : Receive(t)
    \/ Tick
    \/ LinkChange
    \/ FireChange

Spec == Init /\ [][Next]_vars

\* Shutting down: the controller with its poll loop, a caller that switches
\* the power, the link and the clock, and close() called at any moment after
\* initialize().  The hands on the fireplace and the other setters play no
\* part in it.
NextClose ==
    \/ Initialize
    \/ PollWake
    \/ \E v \in BOOLEAN : SetOn(v)
    \/ \E t \in Tasks : LockGranted(t)
    \/ \E t \in Tasks : Receive(t)
    \/ Close
    \/ Tick
    \/ LinkChange

SpecClose == Init /\ [][NextClose]_vars

\* the addresses discovery hands to refresh_address: the one the controller
\* was made with and the ones fireplaces answer from
AddressInputs == {DEVICE_IP} \cup Addrs

\* refresh_address that also takes the new address for a sign of life
RefreshAddress_Reconnects(address) ==
    /\ IF settings["IP_ADDRESS"] = address
       THEN UNCHANGED <<settings, dg, state, last_response>>
       ELSE /\ dg' = [dg EXCEPT !.ip = address]
            /\ settings' = SetKey(settings, "IP_ADDRESS", address)
            /\ state' = IF state = "DISCONNECTED" THEN "READY" ELSE state
            /\ last_response' = IF state = "DISCONNECTED" THEN now ELSE last_response
    /\ ev' = [NoEvent(None, "refresh_address") EXCEPT
                 !.call = [field |-> "IP_ADDRESS", value |-> address, sync |-> FALSE]]
    /\ UNCHANGED <<busy_end_time, closed, initialised, lock, fire,
                   responsive, disconnected_uids, outage, tasks, msg, disc>>

\* Controller.refresh_address (lines 340-350) with FireplaceDatagram.set_ip.
\* Lines 349-350 write _state_changed when DISCONNECTED: no code reads that
\* attribute, and it has no variable here.
RefreshAddress(address) ==
    /\ IF settings["IP_ADDRESS"] = address
       THEN UNCHANGED <<settings, dg, state, last_response>>
       ELSE /\ dg' = [dg EXCEPT !.ip = address]
            /\ settings' = SetKey(settings, "IP_ADDRESS", address)
            /\ UNCHANGED <<state, last_response>>
    /\ ev' = [NoEvent(None, "refresh_address") EXCEPT
                 !.call = [field |-> "IP_ADDRESS", value |-> address, sync |-> FALSE]]
    /\ UNCHANGED <<busy_end_time, closed, initialised, lock, fire,
                   responsive, disconnected_uids, outage, tasks, msg, disc>>

\* a controller that polls, is switched on and off, and is told its address
NextAddress ==
    \/ Initialize
    \/ PollWake
    \/ \E v \in BOOLEAN : SetOn(v)
    \/ \E t \in Tasks : LockGranted(t)
    \/ \E t \in Tasks : Receive(t)
    \/ \E a \in AddressInputs : RefreshAddress(a)
    \/ Tick
    \/ LinkChange

SpecAddress == Init /\ [][NextAddress]_vars

NextRefresh ==
    \/ Initialize
    \/ PollWake
    \/ \E v \in BOOLEAN : SetOn(v)
    \/ \E v \in SetTemps : SetDesiredTemp(v)
    \/ \E t \in Tasks : LockGranted(t)
    \/ \E t \in Tasks : Receive(t)
    \/ Tick
    \/ LinkChange
    \/ FireChange

SpecRefresh == Init /\ [][NextRefresh]_vars

-----------------------------------------------------------------------------
(* The DiscoveryService (discovery.py) and the Controller objects it makes. *)
(* disc.made lists every Controller made, in the order of their making;     *)
(* disc.controllers is the dictionary _controllers, as pairs <<identifier,  *)
(* position in disc.made>>.                                                 *)

\* the identifiers that replies to a search carry (data.serial_number)
Uids == {DEVICE_UID, DEVICE_UID + 1}

\* the number of Controller objects followed
MaxControllers == 2

\* the controller followed by the other specifications takes no part in it
OnlyDiscovery ==
    UNCHANGED <<state, settings, last_response, busy_end_time, closed, initialised,
                lock, fire, responsive, outage, tasks, ev, dg, msg>>

\* the keys of _controllers
Registered == {c[1] : c \in disc.controllers}

\* _controllers[device_uid], as a position in disc.made
ControllerOf(device_uid) == (CHOOSE c \in disc.controllers : c[1] = device_uid)[2]

\* DiscoveryService._create_controller and Controller.__init__: a Controller
\* with its identifier and address, not initialised
create_controller(device_uid, device_ip) ==
    [uid |-> device_uid, ip |-> device_ip, pc |-> "made"]

\* DiscoveryService._discovery_received, called by _send_broadcast for each
\* reply of a search: an identifier that is no key of _controllers gets a new
\* Controller and a task that initialises it; a known one gets the address
\* (Controller.refresh_address).
DiscoveryReceived(device_uid, device_ip) ==
    /\ IF device_uid \notin Registered
       THEN /\ Len(disc.made) < MaxControllers
            /\ disc' = [disc EXCEPT !.made =
                            Append(@, [create_controller(device_uid, device_ip)
                                           EXCEPT !.pc = "initializing"])]
       ELSE disc' = [disc EXCEPT !.made[ControllerOf(device_uid)].ip = device_ip]
    /\ UNCHANGED disconnected_uids
    /\ OnlyDiscovery

\* initialize_controller (discovery.py lines 308-320) from the moment the first
\* status fetch of Controller.initialize ends with reply.  A ConnectionError is
\* caught and the controller dropped.  Otherwise initialize() has started the
\* poll loop, also after an empty or wrong reply, which left the state
\* DISCONNECTED and the identifier in _disconnected_uids (controller.py lines
\* 315-321 with _last_response 0); the controller is stored in _controllers
\* under its identifier, in the place of any controller stored there before.
InitializeController(i, reply) ==
    /\ i <= Len(disc.made)
    /\ disc.made[i].pc = "initializing"
    /\ IF reply = "error"
       THEN /\ disc' = [disc EXCEPT !.made[i].pc = "failed"]
            /\ UNCHANGED disconnected_uids
       ELSE /\ disc' = [disc EXCEPT
                           !.made[i].pc = "polling",
                           !.controllers =
                               {c \in @ : c[1] # disc.made[i].uid}
                                   \cup {<<disc.made[i].uid, i>>}]
            /\ disconnected_uids' = IF reply = "ok" THEN disconnected_uids
                                    ELSE disconnected_uids \cup {disc.made[i].uid}
    /\ OnlyDiscovery

NextDiscovery ==
    \/ \E device_uid \in Uids, device_ip \in AddressInputs :
           DiscoveryReceived(device_uid, device_ip)
    \/ \E i \in 1..MaxControllers, reply \in Replies : InitializeController(i, reply)

SpecDiscovery == Init /\ [][NextDiscovery]_vars

-----------------------------------------------------------------------------
(* One FireplaceDatagram (datagram.py): send_command calls one after the   *)
(* other, each with its endpoint, its protocol callbacks and its timeout.  *)

\* the controller and the codec take no part in it
OnlyDatagram ==
    UNCHANGED <<state, settings, last_response, busy_end_time, closed, initialised,
                lock, fire, responsive, disconnected_uids, outage, tasks, ev, msg, disc>>

\* send_command lines 64-105, up to the await of create_datagram_endpoint
SendCommand(command, broadcast) ==
    /\ dg.pc = "idle"
    /\ dg' = [NoDatagram EXCEPT !.ip = dg.ip, !.pc = "connecting", !.command = command,
                                !.broadcast = broadcast, !.last = "send_command"]
    /\ OnlyDatagram

\* create_datagram_endpoint succeeds: connection_made (lines 78-80) puts the
\* frame on the wire and send_command awaits on_complete (line 108)
EndpointCreated ==
    /\ dg.pc = "connecting"
    /\ dg' = [dg EXCEPT !.pc = "waiting", !.open = TRUE, !.last = "connection_made"]
    /\ OnlyDatagram

\* create_datagram_endpoint raises OSError: lines 119-120
EndpointFailed ==
    /\ dg.pc = "connecting"
    /\ dg' = [dg EXCEPT !.pc = "raised", !.result = "ConnectionError", !.last = "OSError"]
    /\ OnlyDatagram

\* datagram_received (lines 82-90) with a datagram that decodes: a mismatch of
\* the response id is logged, the response is stored in any case, and for any
\* command but SEARCH_FOR_FIRES the transport is closed
DatagramReceived(addr, id) ==
    /\ dg.pc = "waiting"
    /\ dg.open
    /\ dg' = [dg EXCEPT !.responses = DictPut(@, addr, Response(addr, id)),
                        !.open = (dg.command = "SEARCH_FOR_FIRES"),
                        !.closing = (dg.command # "SEARCH_FOR_FIRES"),
                        !.last = IF id = expected_response(dg.command)
                                 THEN "datagram_received" ELSE "mismatch_logged"]
    /\ OnlyDatagram

\* datagram_received with a datagram that does not decode: line 83 raises
\* inside the callback, the event loop logs the exception and goes on
GarbageReceived ==
    /\ dg.pc = "waiting"
    /\ dg.open
    /\ dg' = [dg EXCEPT !.last = "decode_error"]
    /\ OnlyDatagram

\* error_received (lines 92-95): logs
ErrorReceived ==
    /\ dg.pc = "waiting"
    /\ dg.open
    /\ dg' = [dg EXCEPT !.last = "error_received"]
    /\ OnlyDatagram

\* connection_lost (lines 97-98), after transport.close() or when the endpoint
\* is lost: on_complete is set and send_command returns responses (lines
\* 110-117)
ConnectionLost ==
    /\ dg.pc = "waiting"
    /\ dg' = [dg EXCEPT !.pc = "returned", !.open = FALSE, !.closing = FALSE,
                        !.result = "responses", !.last = "connection_lost"]
    /\ OnlyDatagram

\* REQUEST_TIMEOUT is over (line 101): the context manager raises
\* asyncio.TimeoutError out of the `async with`, lines 110-117 are skipped and
\* line 119 catches it where it is the builtin TimeoutError
Timeout(build) ==
    /\ dg.pc \in {"connecting", "waiting"}
    /\ dg' = [dg EXCEPT !.pc = "raised", !.expired = TRUE,
                        !.result = IF build = "3.11" THEN "ConnectionError"
                                   ELSE "asyncio.TimeoutError",
                        !.last = "timeout"]
    /\ OnlyDatagram

\* the caller has its map or its exception; the next call can start
Collected ==
    /\ dg.pc \in {"returned", "raised"}
    /\ dg' = [NoDatagram EXCEPT !.ip = dg.ip]
    /\ OnlyDatagram

InitDatagram ==
    /\ Init
    /\ responsive
    /\ fire = [has_new_timers |-> FALSE, fire_is_on |-> FALSE, fan_boost_is_on |-> FALSE,
               flame_effect |-> FALSE, desired_temp |-> MIN_SET_TEMP, current_temp |-> 16]

NextDatagram ==
    \/ \E i \in SendInputs : SendCommand(i[1], i[2])
    \/ EndpointCreated
    \/ EndpointFailed
    \/ \E addr \in Addrs, id \in ResponseID : DatagramReceived(addr, id)
    \/ GarbageReceived
    \/ ErrorReceived
    \/ ConnectionLost
    \/ \E build \in Builds : Timeout(build)
    \/ Collected

SpecDatagram == InitDatagram /\ [][NextDatagram]_vars

-----------------------------------------------------------------------------
(* One FireplaceMessage (message.py): the 15-byte frame, the constructor   *)
(* that builds a command and the constructor that reads a response.        *)

MESSAGE_LENGTH == 15
MSG_OFFSET_START_BYTE == 0
MSG_OFFSET_ID == 1
MSG_OFFSET_DATA_LENGTH == 2
MSG_OFFSET_DATA_START == 3
MSG_OFFSET_DATA_END == 12
MSG_OFFSET_CRC == 13
MSG_OFFSET_END_BYTE == 14
DATA_OFFSET_TIMERS == 0
DATA_OFFSET_FIRE_ON == 1
DATA_OFFSET_BOOST_ON == 2
DATA_OFFSET_EFFECT_ON == 3
DATA_OFFSET_DESIRED_TEMP == 4
DATA_OFFSET_CURRENT_TEMP == 5
DATA_OFFSET_SERIAL == 0
DATA_OFFSET_PIN == 4
MESSAGE_START_BYTE == 71
MESSAGE_END_BYTE == 70

\* CommandID(Enum).value
CommandValue(c) ==
    CASE c = "STATUS_PLEASE" -> 49
      [] c = "POWER_ON" -> 57
      [] c = "POWER_OFF" -> 58
      [] c = "SEARCH_FOR_FIRES" -> 80
      [] c = "FAN_BOOST_ON" -> 55
      [] c = "FAN_BOOST_OFF" -> 56
      [] c = "FLAME_EFFECT_ON" -> 86
      [] c = "FLAME_EFFECT_OFF" -> 85
      [] c = "NEW_SET_TEMP" -> 87

\* ResponseID(Enum).value
ResponseValue(r) ==
    CASE r = "STATUS" -> 128
      [] r = "POWER_ON_ACK" -> 141
      [] r = "POWER_OFF_ACK" -> 143
      [] r = "FAN_BOOST_ON_ACK" -> 138
      [] r = "FAN_BOOST_OFF_ACK" -> 139
      [] r = "FLAME_EFFECT_ON_ACK" -> 97
      [] r = "FLAME_EFFECT_OFF_ACK" -> 96
      [] r = "NEW_SET_TEMP_ACK" -> 102
      [] r = "I_AM_A_FIRE" -> 153

\* a bytearray is indexed from 0, a sequence from 1
ByteAt(b, offset) == b[offset + 1]

SetByte(b, offset, v) == [b EXCEPT ![offset + 1] = v]

\* bytearray(MESSAGE_LENGTH): all zero
ZeroFrame == [i \in 1..MESSAGE_LENGTH |-> 0]

\* the loop "for i in range(first, last): crc_sum += b[i]"
RECURSIVE SumRange(_, _, _)
SumRange(b, first, last) ==
    IF first >= last THEN 0
    ELSE ByteAt(b, first) + SumRange(b, first + 1, last)

\* crc_sum with the start marker counted in
crc_sum_FromStart(b) == SumRange(b, MSG_OFFSET_START_BYTE, MSG_OFFSET_DATA_END) % 255

\* the checksum both constructors compute: offsets 1..11, modulo 255
crc_sum(b) == SumRange(b, MSG_OFFSET_ID, MSG_OFFSET_DATA_END) % 255

\* int.from_bytes(incoming[first:last], byteorder='big', signed=False)
RECURSIVE FromBytes(_, _, _)
FromBytes(b, first, last) ==
    IF first >= last THEN 0
    ELSE FromBytes(b, first, last - 1) * 256 + ByteAt(b, last - 1)

\* an attribute is None or holds a value
Nothing == <<>>

Some(v) == <<v>>

\* _initialise_data is declared with self alone: every attribute None when it
\* is called on the object, a TypeError when it is handed an argument
initialise_data(args) ==
    IF args = <<>>
    THEN [raised |-> None, is_command |-> Nothing, id |-> Nothing,
          has_new_timers |-> Nothing, fire_on |-> Nothing, fan_boost_on |-> Nothing,
          effect_on |-> Nothing, desired_temp |-> Nothing, current_temp |-> Nothing,
          serial |-> Nothing, pin |-> Nothing, bytes |-> <<>>]
    ELSE [raised |-> "TypeError"]

\* a constructor that raised returns no object
Raised(kind) == [raised |-> kind]

\* raise ValueError('Message:'+bytearray+...): the text adds the type bytearray
\* to a str, which raises TypeError before the ValueError exists
RaiseWithText == Raised("TypeError")

\* FireplaceMessage(command, set_temp): lines 97-130
Encode(command, set_temp) ==
    LET data == initialise_data(<<>>)
        marked == SetByte(SetByte(SetByte(ZeroFrame,
                      MSG_OFFSET_START_BYTE, MESSAGE_START_BYTE),
                      MSG_OFFSET_END_BYTE, MESSAGE_END_BYTE),
                      MSG_OFFSET_ID, CommandValue(command))
        filled == IF command = "NEW_SET_TEMP"
                  THEN SetByte(SetByte(marked, MSG_OFFSET_DATA_LENGTH, 1),
                               MSG_OFFSET_DATA_START, set_temp[1])
                  ELSE marked
    IN IF command = "NEW_SET_TEMP" /\ set_temp = Nothing THEN Raised("ValueError")
       \* line 121: a bytearray takes only values of range(0, 256)
       ELSE IF command = "NEW_SET_TEMP" /\ set_temp[1] \notin 0..255 THEN Raised("ValueError")
       ELSE [data EXCEPT !.is_command = Some(TRUE),
                         !.id = Some(command),
                         !.desired_temp = set_temp,
                         !.bytes = SetByte(filled, MSG_OFFSET_CRC, crc_sum(filled))]

\* "incoming.count != self.MESSAGE_LENGTH": count is a method of bytearray,
\* and a method differs from every integer
CountDiffers(incoming) == TRUE

\* FireplaceMessage(incoming=...): lines 132-198, in the order of the code
Decode(incoming) ==
    LET data == initialise_data(<<"self">>)
        id_byte == ByteAt(incoming, MSG_OFFSET_ID)
        length == ByteAt(incoming, MSG_OFFSET_DATA_LENGTH)
        ids == {r \in ResponseID : ResponseValue(r) = id_byte}
        id == CHOOSE r \in ids : TRUE
        read == [data EXCEPT !.is_command = Some(FALSE), !.id = Some(id),
                             !.bytes = incoming]
    IN IF data.raised # None THEN Raised(data.raised)
       ELSE IF CountDiffers(incoming) THEN RaiseWithText
       ELSE IF ByteAt(incoming, MSG_OFFSET_START_BYTE) # MESSAGE_START_BYTE THEN RaiseWithText
       ELSE IF ByteAt(incoming, MSG_OFFSET_END_BYTE) # MESSAGE_END_BYTE THEN RaiseWithText
       ELSE IF crc_sum(incoming) # ByteAt(incoming, MSG_OFFSET_CRC) THEN RaiseWithText
       ELSE IF ids = {} THEN Raised("ValueError")
       ELSE IF id = "STATUS"
            THEN IF length # 6 THEN RaiseWithText
                 ELSE [read EXCEPT
                         !.has_new_timers =
                             Some(ByteAt(incoming, MSG_OFFSET_DATA_START + DATA_OFFSET_TIMERS) # 0),
                         !.fire_on =
                             Some(ByteAt(incoming, MSG_OFFSET_DATA_START + DATA_OFFSET_FIRE_ON) # 0),
                         !.fan_boost_on =
                             Some(ByteAt(incoming, MSG_OFFSET_DATA_START + DATA_OFFSET_BOOST_ON) # 0),
                         !.effect_on =
                             Some(ByteAt(incoming, MSG_OFFSET_DATA_START + DATA_OFFSET_EFFECT_ON) # 0),
                         !.desired_temp =
                             Some(ByteAt(incoming, MSG_OFFSET_DATA_START + DATA_OFFSET_DESIRED_TEMP)),
                         !.current_temp =
                             Some(ByteAt(incoming, MSG_OFFSET_DATA_START + DATA_OFFSET_CURRENT_TEMP))]
       ELSE IF id = "I_AM_A_FIRE"
            THEN IF length # 6 THEN RaiseWithText
                 \* the serial number goes to the attribute serial, and _serial,
                 \* which serial_number returns, stays None
                 ELSE [read EXCEPT
                         !.pin = Some(FromBytes(incoming,
                                     MSG_OFFSET_DATA_START + DATA_OFFSET_PIN,
                                     MSG_OFFSET_DATA_START + DATA_OFFSET_PIN + 1))]
       ELSE IF length # 0 THEN RaiseWithText
       ELSE read

\* a frame as the fireplace sends it: markers, identifier, data length, data
\* from offset 3, checksum
ResponseFrame(id, data) ==
    LET marked == SetByte(SetByte(SetByte(SetByte(ZeroFrame,
                      MSG_OFFSET_START_BYTE, MESSAGE_START_BYTE),
                      MSG_OFFSET_END_BYTE, MESSAGE_END_BYTE),
                      MSG_OFFSET_ID, ResponseValue(id)),
                      MSG_OFFSET_DATA_LENGTH, Len(data))
        filled == [i \in 1..MESSAGE_LENGTH |->
                      IF /\ i > MSG_OFFSET_DATA_START
                         /\ i <= MSG_OFFSET_DATA_START + Len(data)
                      THEN data[i - MSG_OFFSET_DATA_START]
                      ELSE marked[i]]
    IN SetByte(filled, MSG_OFFSET_CRC, crc_sum(filled))

\* the ways mock_response spoils a frame (force_..._error), and not at all
Corruptions == {"none", "crc", "start_byte", "end_byte", "data_len"}

Corrupt(frame, how) ==
    CASE how = "none" -> frame
      [] how = "crc" -> SetByte(frame, MSG_OFFSET_CRC, 0)
      [] how = "start_byte" -> SetByte(frame, MSG_OFFSET_START_BYTE, 0)
      [] how = "end_byte" -> SetByte(frame, MSG_OFFSET_END_BYTE, 0)
      [] how = "data_len" ->
             SetByte(frame, MSG_OFFSET_DATA_LENGTH, ByteAt(frame, MSG_OFFSET_DATA_LENGTH) + 1)

\* the temperatures a caller asks for: the valid ones, their neighbours, and
\* the ends of what a byte holds with their neighbours
EncodeTemps == ((MIN_SET_TEMP - 1)..(MAX_SET_TEMP + 1)) \cup {-1, 0, 255, 256}

\* the commands and payloads a caller builds: a temperature only for NEW_SET_TEMP
EncodeInputs ==
    {<<c, Nothing>> : c \in CommandID}
        \cup {<<"NEW_SET_TEMP", Some(t)>> : t \in EncodeTemps}

\* the responses a fireplace sends: two statuses, the announcements of the
\* two test fireplaces, and every acknowledgement
ResponseInputs ==
    {<<"STATUS", <<0, 0, 0, 0, MIN_SET_TEMP, MAX_SET_TEMP>>>>,
     <<"STATUS", <<0, 1, 0, 1, MAX_SET_TEMP, MIN_SET_TEMP>>>>,
     <<"I_AM_A_FIRE", <<0, 0, 4, 87, 4, 210>>>>,
     <<"I_AM_A_FIRE", <<0, 0, 8, 174, 4, 210>>>>}
        \cup {<<r, <<>>>> : r \in ResponseID \ {"STATUS", "I_AM_A_FIRE"}}

\* the controller and the transport take no part in it
OnlyMessage ==
    UNCHANGED <<state, settings, last_response, busy_end_time, closed, initialised,
                lock, fire, responsive, disconnected_uids, outage, tasks, ev, dg, disc>>

\* FireplaceMessage(command, set_temp)
Construct(command, set_temp) ==
    /\ msg' = [op |-> "encode", id |-> command, set_temp |-> set_temp, how |-> "none",
               built |-> Encode(command, set_temp), read |-> Raised(None),
               expected |-> IF Encode(command, set_temp).raised = None
                            THEN expected_response(command) ELSE None]
    /\ OnlyMessage

\* the bytes of a built command handed to FireplaceMessage(incoming=...), as
\* the transport of the tests does with what it is sent
Loopback ==
    /\ msg.op = "encode"
    /\ msg.built.raised = None
    /\ msg' = [msg EXCEPT !.op = "loopback", !.read = Decode(msg.built.bytes)]
    /\ OnlyMessage

\* FireplaceMessage(incoming=...) on a response frame, spoiled or not
Incoming(id, data, how) ==
    /\ msg' = [op |-> "decode", id |-> id, set_temp |-> Nothing, how |-> how,
               built |-> [raised |-> None, bytes |-> Corrupt(ResponseFrame(id, data), how)],
               read |-> Decode(Corrupt(ResponseFrame(id, data), how)),
               expected |-> None]
    /\ OnlyMessage

InitCodec == InitDatagram

NextCodec ==
    \/ \E i \in EncodeInputs : Construct(i[1], i[2])
    \/ Loopback
    \/ \E i \in ResponseInputs, how \in Corruptions : Incoming(i[1], i[2], how)

SpecCodec == InitCodec /\ [][NextCodec]_vars

TypeOK ==
    /\ state \in ControllerState \cup {None}
    /\ lock.holder \in Tasks \cup {None}
    /\ \A t \in Tasks : tasks[t].pc \in {"uninit", "failed", "dead", "done", "sleep", "idle",
                                         "rf_lock", "rf_wait", "set_lock1", "set_wait1",
                                         "set_lock2", "set_wait2"}

-----------------------------------------------------------------------------
(* Properties of the refresh (controller.py, _refresh_system)              *)

\* the cache holds what the fireplace reports
CacheIsReply ==
    /\ settings["HAS_NEW_TIMERS"] = fire.has_new_timers
    /\ settings["CURRENT_TEMP"] = fire.current_temp
    /\ settings["DESIRED_TEMP"] = fire.desired_temp
    /\ settings["FAN_MODE"] = FanOfStatus(fire)
    /\ settings["FIRE_IS_ON"] = fire.fire_is_on

\* the frames that carry a setting to the fireplace
CommandsFor(field) ==
    CASE field = "DESIRED_TEMP" -> {"NEW_SET_TEMP"}
      [] field = "FAN_MODE" -> {"FAN_BOOST_ON", "FAN_BOOST_OFF",
                                "FLAME_EFFECT_ON", "FLAME_EFFECT_OFF"}
      [] field = "FIRE_IS_ON" -> {"POWER_ON", "POWER_OFF"}

\* C1: a refresh whose status request gets no valid STATUS reply (wrong id,
\* empty map, or no answer in time) ends, whatever the prior state, with state
\* NON_RESPONSIVE when now - last_response < RETRY_TIMEOUT and otherwise with
\* state DISCONNECTED and a 'disconnected' notification.
C1_NoReplyEndsRefresh ==
    (ev.rx = "STATUS_PLEASE" /\ ev.reply # "ok") =>
        /\ ev.rf = "failed"
        /\ IF now - last_response < RETRY_TIMEOUT
           THEN ev.x.state = "NON_RESPONSIVE"
           ELSE ev.x.state = "DISCONNECTED" /\ "disconnected" \in ev.x.notes

\* C2: between two valid replies the controller gives Discovery at most one
\* 'disconnected' notification, however many polls fail.
C2_OneDisconnectedPerOutage ==
    outage <= 1

\* C3: a poll of the loop that starts in READY and gets no valid reply leaves
\* the state NON_RESPONSIVE and the loop asleep until its next poll (so that
\* polling goes on until the state is DISCONNECTED).
C3_FailedPollFromReady ==
    (/\ ev.task = "poll"
     /\ ev.rx = "STATUS_PLEASE"
     /\ ev.reply # "ok"
     /\ ev.x.ret = "loop"
     /\ ev.x.prior_state = "READY") =>
        state = "NON_RESPONSIVE" /\ tasks["poll"].pc = "sleep"

\* C4: no STATUS_PLEASE frame is put on the wire at a moment when the state is
\* BUSY and now < busy_end_time, under every interleaving of the poll loop with
\* the set operations.
C4_NoStatusRequestWhileBusy ==
    ev.tx = "STATUS_PLEASE" => ~(state = "BUSY" /\ now < busy_end_time)

\* C5 as stated: after a refresh that got a valid STATUS reply with prior state
\* READY, every cached field equals the reply, the state is READY and an
\* 'updated' notification was sent.
C5_ReadyRefreshAsStated ==
    ev.rf = "ready" =>
        /\ CacheIsReply
        /\ ev.x.state = "READY"
        /\ "updated" \in ev.x.notes

\* C5 amended: after a refresh that got a valid STATUS reply with prior state
\* READY, every cached field equals the reply (fan mode FAN_BOOST if boost is
\* on, else FLAME_EFFECT if flame effect is on, else AUTO), the state is what it
\* was when the reply arrived (the refresh does not assign it), and an 'updated'
\* notification was sent unless the refresh is the one of initialize().
C5_ReadyRefresh ==
    [][ev'.rf = "ready" =>
          /\ CacheIsReply'
          /\ ev'.x.prior_state = "READY"
          /\ ev'.x.state = state
          /\ ("updated" \in ev'.x.notes) <=> (ev'.x.ret # "init")]_vars

\* C5 happens: a poll of the loop got its reply with prior state READY and
\* notified 'updated', while a set operation had moved the state on from READY
C5_ReadyRefreshSeen ==
    /\ ev.rf = "ready"
    /\ ev.x.ret = "loop"
    /\ "updated" \in ev.x.notes
    /\ ev.x.state # "READY"

\* C6: a refresh that got a valid STATUS reply with prior state not READY has
\* transmitted, for each of desired temperature, fan mode and power whose
\* cached value differed from the reported one, a frame that carries it, and
\* the fireplace ends with the cached values.
C6_ResyncTransmits ==
    ev.rf = "resync" =>
        /\ \A f \in ev.x.mism : ev.x.sent \cap CommandsFor(f) # {}
        /\ fire.desired_temp = settings["DESIRED_TEMP"]
        /\ fire.fan_boost_is_on = (settings["FAN_MODE"] = "FAN_BOOST")
        /\ fire.flame_effect = (settings["FAN_MODE"] = "FLAME_EFFECT")
        /\ fire.fire_is_on = settings["FIRE_IS_ON"]

\* C7: a refresh that got a valid STATUS reply with prior state not READY ends
\* in BUSY with busy_end_time = now + ON_OFF_BUSY_WAIT_TIME when power had to
\* be synchronised, and in READY otherwise.
C7_ResyncEndsBusyOrReady ==
    ev.rf = "resync" =>
        IF "FIRE_IS_ON" \in ev.x.mism
        THEN ev.x.state = "BUSY" /\ busy_end_time = now + ON_OFF_BUSY_WAIT_TIME
        ELSE ev.x.state = "READY"

\* C8: a refresh that got a valid STATUS reply notifies 'reconnected' and
\* 'updated' when its prior state was DISCONNECTED, and does not notify
\* 'reconnected' when its prior state was anything else.
C8_ReconnectedAndUpdated ==
    /\ (ev.rf = "resync" /\ ev.x.prior_state = "DISCONNECTED") =>
           {"reconnected", "updated"} \subseteq ev.x.notes
    /\ (ev.rf \in {"ready", "resync"} /\ ev.x.prior_state # "DISCONNECTED") =>
           "reconnected" \notin ev.x.notes

\* C9: when BUSY has run out and a refresh got a valid STATUS reply and took
\* the controller back to READY, the fireplace has the fan mode and the desired
\* temperature that the cache holds (so that later READY polls keep them).
C9_BufferedChangeOnAppliance ==
    (ev.rf = "resync" /\ ev.x.prior_state = "BUSY" /\ ev.x.state = "READY") =>
        /\ fire.desired_temp = settings["DESIRED_TEMP"]
        /\ fire.fan_boost_is_on = (settings["FAN_MODE"] = "FAN_BOOST")
        /\ fire.flame_effect = (settings["FAN_MODE"] = "FLAME_EFFECT")

-----------------------------------------------------------------------------
(* Properties of the set operations (controller.py, _set_system_state)     *)

\* what the getter of a setting returns
Getter(field) ==
    CASE field = "FIRE_IS_ON" -> is_on
      [] field = "FAN_MODE" -> fan
      [] field = "DESIRED_TEMP" -> desired_temp

\* what a getter that returns value would return
Returned(field, value) ==
    IF field = "FIRE_IS_ON" THEN (IF value THEN "True" ELSE "False") ELSE value

\* C10: as soon as set_on, set_fan or set_desired_temp (value in range) has
\* started, in whatever state, the cache holds the new value and the getter of
\* the setting returns it.
C10_GetterReturnsWrite ==
    ev.call.field # None =>
        /\ HasKey(settings, ev.call.field)
        /\ settings[ev.call.field] = ev.call.value
        /\ Getter(ev.call.field) = Returned(ev.call.field, ev.call.value)

\* C11: a set_on / set_fan / set_desired_temp call made while the state is not
\* READY puts no frame on the wire, starts no refresh, and leaves the state,
\* last_response, busy_end_time and the sending lock as they were; of the cache
\* only the entry of the setting changes, to the value given.
C11_BufferedWhileNotReady ==
    [][(ev'.call.field # None /\ state # "READY") =>
          /\ ev'.tx = None
          /\ ev'.rf = None
          /\ state' = state
          /\ last_response' = last_response
          /\ busy_end_time' = busy_end_time
          /\ lock' = lock
          /\ fire' = fire
          /\ tasks'["caller"].pc = "idle"
          /\ settings' \in {settings, SetKey(settings, ev'.call.field, ev'.call.value)}
          /\ HasKey(settings, ev'.call.field) =>
                 settings' = SetKey(settings, ev'.call.field, ev'.call.value)]_vars

\* C11 happens: set_fan during the settle time has returned with the fan mode in
\* the cache and not on the fireplace
C11_BufferedSeen ==
    /\ ev.call.field = "FAN_MODE"
    /\ ev.done = "returned"
    /\ state = "BUSY"
    /\ now < busy_end_time
    /\ settings["FAN_MODE"] = ev.call.value
    /\ FanOfStatus(fire) # ev.call.value

\* C12: a set_on / set_fan / set_desired_temp call whose value is the one the
\* cache holds changes nothing in any state: no frame goes out, no refresh is
\* started, the state, the cache and the time stamps stay, and the call returns.
C12_EqualValueIsNoOp ==
    [][(/\ ev'.call.field # None
        /\ HasKey(settings, ev'.call.field)
        /\ settings[ev'.call.field] = ev'.call.value) =>
          /\ ev'.tx = None
          /\ ev'.rf = None
          /\ ev'.done = "returned"
          /\ state' = state
          /\ settings' = settings
          /\ last_response' = last_response
          /\ busy_end_time' = busy_end_time
          /\ lock' = lock
          /\ fire' = fire
          /\ tasks'["caller"].pc = "idle"]_vars

\* C12 happens: in READY, where a new value would be dispatched, set_fan with the
\* cached fan mode has returned at once
C12_EqualValueSeen ==
    /\ ev.call.field = "FAN_MODE"
    /\ ev.done = "returned"
    /\ ev.tx = None
    /\ state = "READY"
    /\ settings["FAN_MODE"] = ev.call.value

\* the frames of a setting change
SetFrames == CommandsFor("FIRE_IS_ON") \cup CommandsFor("FAN_MODE") \cup CommandsFor("DESIRED_TEMP")

\* C13: when the acknowledgement of a frame of set_on / set_fan /
\* set_desired_temp fails (no reply in time, an empty map or another response
\* id), the state becomes NON_RESPONSIVE and the dispatch stops: no further
\* frame and no status request goes out, no refresh is run.
C13_FailedAckStopsDispatch ==
    [][(/\ ev'.rx \in SetFrames
        /\ ev'.reply # "ok"
        /\ ~tasks[ev'.task].frame.sync) =>
          /\ state' = "NON_RESPONSIVE"
          /\ ev'.tx = None
          /\ ev'.rf = None
          /\ tasks'[ev'.task].pc = "idle"]_vars

\* C14: when the power frame of set_on is acknowledged, the controller is BUSY
\* with busy_end_time = now + ON_OFF_BUSY_WAIT_TIME, no status request goes out
\* as part of the set operation, and the cache holds the new power value.
C14_PowerAckEntersBusy ==
    [][(/\ ev'.rx \in CommandsFor("FIRE_IS_ON")
        /\ ev'.reply = "ok"
        /\ ~tasks[ev'.task].frame.sync) =>
          /\ ev'.tx = None
          /\ state' = "BUSY"
          /\ busy_end_time' = now + ON_OFF_BUSY_WAIT_TIME
          /\ settings'["FIRE_IS_ON"] = (ev'.rx = "POWER_ON")]_vars

C16_FanCommandSequence ==
    [][LET from == settings["FAN_MODE"]
           to == ev'.call.value
           Off(mode) == IF mode = "FAN_BOOST" THEN "FAN_BOOST_OFF" ELSE "FLAME_EFFECT_OFF"
           On(mode) == IF mode = "FAN_BOOST" THEN "FAN_BOOST_ON" ELSE "FLAME_EFFECT_ON"
       IN /\ (/\ ev'.call.field = "FAN_MODE"
              /\ state = "READY"
              /\ HasKey(settings, "FAN_MODE")
              /\ from # to) =>
                tasks'["caller"].command = IF from # "AUTO" THEN Off(from) ELSE On(to)
          /\ (/\ ev'.rx \in {"FAN_BOOST_OFF", "FLAME_EFFECT_OFF"}
              /\ ev'.reply = "ok"
              /\ ~tasks[ev'.task].frame.sync) =>
                tasks'[ev'.task].command =
                    IF tasks[ev'.task].frame.value = "AUTO" THEN "STATUS_PLEASE"
                    ELSE On(tasks[ev'.task].frame.value)]_vars

\* C17: the fireplace, which starts with at most one of the two toggles on and
\* whose toggles only this controller commands, never has FAN_BOOST and
\* FLAME_EFFECT on together.
C17_NeverBothToggles ==
    ~(fire.fan_boost_is_on /\ fire.flame_effect)

\* C18: when a set_fan(to) call made on a responsive fireplace in READY ends
\* with its refresh answered, the fan getter equals 'to' and the state is READY.
C18_FanGetterEqualsTarget ==
    [][(/\ ev'.task = "caller"
        /\ ev'.rf = "ready"
        /\ ev'.reply = "ok"
        /\ tasks["caller"].call.field = "FAN_MODE") =>
          /\ ev'.done = "returned"
          /\ fan' = tasks["caller"].call.value
          /\ state' = "READY"]_vars

\* C19: when the first status fetch of initialize() fails (ConnectionError on
\* timeout, empty reply or wrong response id), initialize() raises, the
\* controller is not marked initialised and the poll loop is not started.
C19_FailedFirstFetchFailsInit ==
    (ev.x.ret = "init" /\ ev.rx = "STATUS_PLEASE" /\ ev.reply # "ok") =>
        /\ ev.done # "returned"
        /\ ~initialised
        /\ tasks["poll"].pc = "failed"

\* C20: once initialize() has fetched a status and marked the controller
\* initialised, a failed exchange (timeout or connection error, empty reply,
\* wrong reply) of set_on, set_fan, set_desired_temp or of a poll-loop refresh
\* raises nothing and leaves the state NON_RESPONSIVE or DISCONNECTED.
C20_NoFailureEscapes ==
    (/\ initialised
     /\ HasKey(settings, "FIRE_IS_ON")
     /\ ev.rx # None
     /\ ev.reply \in Replies \ {"ok"}) =>
        /\ ev.done # "ConnectionError"
        /\ state \in {"NON_RESPONSIVE", "DISCONNECTED"}

-----------------------------------------------------------------------------
(* Properties of the exchanges with the fireplace                          *)

\* C21: _last_response changes only in a step in which send_command returned a
\* reply with the response id expected for the frame sent, and then it is the
\* time of that step; a timeout, an empty map or a reply with another id leaves
\* it as it was.  (The passing of time only moves the stamp into the past.)
C21_LastResponseOnlyOnValidReply ==
    [][/\ ev'.op = "env" =>
             last_response' \in {last_response,
                                 Max(last_response - SecondsPerTick, LongAgo)}
       /\ (ev'.op # "env" /\ last_response' # last_response) =>
             ev'.rx # None /\ ev'.reply = "ok" /\ last_response' = now
       /\ (ev'.rx # None /\ ev'.reply # "ok") =>
             last_response' = last_response]_vars

\* C21 happens: an exchange has just failed with a reply of another id and the
\* stamp of an earlier valid reply is still there
C21_FailureKeepsStamp ==
    /\ ev.rx \in SetFrames
    /\ ev.reply = "wrong"
    /\ last_response < now
    /\ last_response > LongAgo

\* C22: at any moment at most one task (the poll loop with its status request
\* or its resynchronisation, or the caller of set_on / set_fan /
\* set_desired_temp) is inside send_command waiting for a response, and that
\* task holds the sending lock.
C22_OneCommandInFlight ==
    LET InFlight == {t \in Tasks : tasks[t].pc \in {"rf_wait", "set_wait1", "set_wait2"}}
    IN /\ Cardinality(InFlight) <= 1
       /\ \A t \in InFlight : lock.holder = t

\* C22 happens: the poll loop wants to send its status request while a frame
\* of the caller is in flight
C22_PollWaitsForCaller ==
    /\ tasks["caller"].pc \in {"set_wait1", "set_wait2"}
    /\ tasks["poll"].pc = "rf_lock"
    /\ lock.holder = "caller"
    /\ lock.waiters = <<"poll">>

\* C23: a controller that is BUSY past its deadline, NON_RESPONSIVE or
\* DISCONNECTED recovers once the fireplace answers: the refresh of the poll
\* loop that started in such a state, with the cache filled by an earlier
\* status, and got a valid STATUS reply ends with the controller READY (or BUSY, to become READY), whatever settings are
\* buffered, and with the poll loop asleep until its next turn.
C23_AnsweredPollRecovers ==
    [][(/\ ev'.task = "poll"
        /\ ev'.rx = "STATUS_PLEASE"
        /\ ev'.reply = "ok"
        /\ tasks["poll"].ret = "loop"
        /\ HasKey(settings, "FIRE_IS_ON")
        /\ tasks["poll"].prior_state \in {"BUSY", "NON_RESPONSIVE", "DISCONNECTED"}
        /\ tasks'["poll"].pc \notin {"set_lock1", "set_wait1", "set_lock2", "set_wait2"}) =>
          /\ tasks'["poll"].pc = "sleep"
          /\ state' \in {"READY", "BUSY"}]_vars

-----------------------------------------------------------------------------
(* Shutting down (controller.py, close and _poll_loop)                     *)

\* C24: after close() the poll loop starts no new refresh and ends: when its
\* sleep is over it leaves the loop without taking the lock or sending
\* anything, it never sleeps longer than the longest interval, and once ended
\* it stays ended.  close() itself touches no task: a refresh or a frame in
\* flight at that moment keeps the lock and runs on to its reply or timeout.
C24_CloseEndsPollLoop ==
    [][/\ (closed /\ tasks["poll"].pc = "sleep" /\ ev'.task = "poll") =>
             /\ tasks'["poll"].pc = "done"
             /\ ev'.tx = None
             /\ ev'.rf = None
             /\ lock' = lock
       /\ (closed /\ tasks["poll"].pc = "sleep") =>
             tasks["poll"].wake <= now + Max(DISCONNECTED_INTERVAL, ON_OFF_BUSY_WAIT_TIME)
       /\ tasks["poll"].pc = "done" => tasks'["poll"].pc = "done"
       /\ ev'.op = "Close" =>
             /\ closed'
             /\ tasks' = tasks
             /\ lock' = lock
       /\ (closed /\ ev'.task = "poll" /\ tasks["poll"].pc = "rf_wait") =>
             ev'.rx = "STATUS_PLEASE" /\ ev'.reply \in Replies]_vars

\* C24 happens: close() was called while the status request of the poll loop
\* was in flight, the request has been answered and the refresh has ended
C24_ClosedInFlightFinished ==
    /\ closed
    /\ ev.task = "poll"
    /\ ev.rx = "STATUS_PLEASE"
    /\ ev.reply = "ok"
    /\ ev.rf = "ready"
    /\ tasks["poll"].pc = "sleep"

-----------------------------------------------------------------------------
(* Properties of the transport (datagram.py, send_command)                 *)

\* C25: every frame in the map a non-broadcast send_command returns has the
\* response id expected for the command sent (a datagram with another id is
\* dropped and the wait goes on).
C25_ReturnedFramesAreExpected ==
    (dg.pc = "returned" /\ ~dg.broadcast) =>
        \A i \in 1..Len(dg.responses) :
            dg.responses[i].id = expected_response(dg.command)

\* C26: a broadcast search to which n >= 1 fireplaces with distinct addresses
\* replied before the timeout ends by returning the map of the n replies, each
\* under its source address and with the serial number of that fireplace, and
\* not by an exception.
C26_SearchReturnsReplies ==
    (/\ dg.pc \in {"returned", "raised"}
     /\ dg.broadcast
     /\ Len(dg.responses) >= 1
     /\ \A i \in 1..Len(dg.responses) : dg.responses[i].id = "I_AM_A_FIRE") =>
        /\ dg.pc = "returned"
        /\ dg.result = "responses"
        /\ \A i \in 1..Len(dg.responses) :
               dg.responses[i].serial = SerialOf(dg.responses[i].addr)

\* C27: a send_command, unicast or broadcast, whose timeout is over with no
\* response stored ends with ConnectionError and returns no map.
C27_TimeoutIsConnectionError ==
    (dg.expired /\ dg.responses = <<>>) =>
        dg.pc = "raised" /\ dg.result = "ConnectionError"

C29_DecodeRecoversCommand ==
    msg.op = "loopback" =>
        /\ msg.read.raised = None
        /\ msg.read.is_command = Some(TRUE)
        /\ msg.read.id = Some(msg.id)
        /\ msg.read.desired_temp = msg.set_temp

\* C30: for every response type, a frame whose checksum byte, start marker,
\* end marker or declared data length was changed is refused by the decoder
\* with the ValueError its documentation names, and no object is returned.
C30_CorruptionRaisesValueError ==
    (msg.op = "decode" /\ msg.how # "none") => msg.read.raised = "ValueError"

\* C31: encoding NEW_SET_TEMP raises ValueError for every temperature below
\* 4 or above 30 and builds a frame for every temperature from 4 to 30.
C31_OutOfRangeRejected ==
    (msg.op = "encode" /\ msg.id = "NEW_SET_TEMP" /\ msg.set_temp # Nothing) =>
        (msg.built.raised = "ValueError") <=>
            (msg.set_temp[1] < MIN_SET_TEMP \/ msg.set_temp[1] > MAX_SET_TEMP)

\* C32: every command message has exactly one expected response, a response
\* identifier; no other command has the same one; and no command identifier
\* has the byte value of a response identifier.
C32_ExpectedResponseOneToOne ==
    (msg.op = "encode" /\ msg.built.raised = None) =>
        /\ msg.expected \in ResponseID
        /\ \A c \in CommandID \ {msg.id} : expected_response(c) # msg.expected
        /\ \A r \in ResponseID : ResponseValue(r) # ByteAt(msg.built.bytes, MSG_OFFSET_ID)

\* C32 happens: a power-off command was built and expects its acknowledgement
C32_PowerOffBuilt ==
    /\ msg.op = "encode"
    /\ msg.id = "POWER_OFF"
    /\ msg.built.raised = None
    /\ msg.expected = "POWER_OFF_ACK"

\* C33: decoding a valid I_AM_A_FIRE frame gives, as serial_number, the
\* big-endian value of the 4 serial bytes of the payload and, as pin, the
\* big-endian value of the next 2 bytes.
C33_AnnouncementDecoded ==
    (msg.op = "decode" /\ msg.how = "none" /\ msg.id = "I_AM_A_FIRE") =>
        LET b == msg.built.bytes
            first == MSG_OFFSET_DATA_START
        IN /\ msg.read.raised = None
           /\ msg.read.serial =
                  Some(((ByteAt(b, first) * 256 + ByteAt(b, first + 1)) * 256
                           + ByteAt(b, first + 2)) * 256 + ByteAt(b, first + 3))
           /\ msg.read.pin = Some(ByteAt(b, first + 4) * 256 + ByteAt(b, first + 5))

C36_CacheNeverTorn ==
    [][LET Five == {"HAS_NEW_TIMERS", "CURRENT_TEMP", "DESIRED_TEMP", "FAN_MODE", "FIRE_IS_ON"}
           Buffered == {"DESIRED_TEMP", "FAN_MODE", "FIRE_IS_ON"}
           Same(keys) == \A k \in keys :
                             /\ HasKey(settings', k) <=> HasKey(settings, k)
                             /\ HasKey(settings, k) => settings'[k] = settings[k]
           Replied == /\ ev'.op = "Receive"
                      /\ ev'.rx = "STATUS_PLEASE"
                      /\ ev'.reply = "ok"
       IN \/ settings' = settings
          \/ /\ Replied
             /\ tasks[ev'.task].prior_state = "READY"
             /\ Five \subseteq DOMAIN settings'
             /\ CacheIsReply'
          \/ /\ Replied
             /\ tasks[ev'.task].prior_state # "READY"
             /\ {"HAS_NEW_TIMERS", "CURRENT_TEMP"} \subseteq DOMAIN settings'
             /\ settings'["HAS_NEW_TIMERS"] = fire'.has_new_timers
             /\ settings'["CURRENT_TEMP"] = fire'.current_temp
             /\ Same(Buffered)
          \/ /\ ev'.call.field \in Buffered
             /\ Same(Five \ {ev'.call.field})
             /\ HasKey(settings', ev'.call.field)
             /\ settings'[ev'.call.field] = ev'.call.value]_vars

\* C36 happens: the poll applied a status reply in READY while the caller was
\* part-way through an operation of its own
C36_AppliedWhileCallerWaits ==
    /\ ev.op = "Receive"
    /\ ev.task = "poll"
    /\ ev.rx = "STATUS_PLEASE"
    /\ ev.reply = "ok"
    /\ ev.rf = "ready"
    /\ tasks["caller"].pc \notin {"idle", "failed", "dead", "done"}
    /\ HasKey(settings, "FIRE_IS_ON")
    /\ CacheIsReply

\* C37: Discovery's set of disconnected identifiers holds the controller's
\* identifier exactly while the controller's state is DISCONNECTED, and a
\* refresh that found the controller DISCONNECTED never fails on removing the
\* identifier from that set, because a 'disconnected' went before every
\* 'reconnected'.
C37_DisconnectedSetTracksState ==
    /\ (DEVICE_UID \in disconnected_uids) <=> (state = "DISCONNECTED")
    /\ (HasKey(settings, "FIRE_IS_ON") /\ ev.x.prior_state = "DISCONNECTED") =>
           ev.done # "KeyError"

\* C38: while close() has not been called, the poll loop of an initialised
\* controller is never ended: whatever a refresh met (a transport failure, a
\* state NON_RESPONSIVE or DISCONNECTED, a notification of discovery), the
\* poll task is asleep or inside a refresh, so that another refresh follows.
\* Stated of a controller whose first status fetch succeeded.
C38_PollLoopKeepsRunning ==
    (initialised /\ HasKey(settings, "FIRE_IS_ON") /\ ~closed) =>
        tasks["poll"].pc # "dead"

\* C39: of the controllers discovery has made for one identifier, at most one
\* is being initialised or runs its poll loop, also when a second reply with
\* the identifier is handled before the first controller's initialisation has
\* ended; and only an identifier that has no such controller gets a new one.
C39_OneControllerPerIdentifier ==
    \A i, j \in 1..Len(disc.made) :
        (/\ disc.made[i].uid = disc.made[j].uid
         /\ disc.made[i].pc \in {"initializing", "polling"}
         /\ disc.made[j].pc \in {"initializing", "polling"}) => i = j

\* C40: from the call of set_on, set_fan or set_desired_temp(v) in READY until
\* the acknowledgement of its last frame, which includes the time it waits for
\* the lock that a poll's status request holds, the cache holds v for the
\* field set; and it still holds v when the set has ended on a missing or wrong
\* acknowledgement.
C40_WriteKeptUntilSetEnds ==
    [][LET c == tasks["caller"].call
           Setting == {"set_lock1", "set_wait1", "set_lock2", "set_wait2"}
           Kept == HasKey(settings', c.field) /\ settings'[c.field] = c.value
       IN (tasks["caller"].pc \in Setting /\ ~c.sync) =>
             /\ tasks'["caller"].pc \in Setting => Kept
             /\ (/\ ev'.op = "Receive"
                 /\ ev'.task = "caller"
                 /\ ev'.reply \in {"wrong", "empty"}) => Kept]_vars

====
